---------------------------- MODULE Spec2Model ----------------------------
(***************************************************************************)
(* A model of the PDF text pipeline of markitdown-pdf-separators:          *)
(*   - TextChunker.chunk_text           (text_chunker.py)                  *)
(*   - PdfConverter.clean_text          (_pdf_converter.py)                *)
(*   - clean_text / looks_like_margin_mark (test_header_footer_removal.py) *)
(*   - PdfConverter._remove_headers_footers_from_text and helpers          *)
(*                                                                         *)
(* A Python str is a sequence of one-character strings.  Every component   *)
(* is a state machine of its own (SpecChunk, SpecClean, ...): Init draws   *)
(* the call's arguments from a bounded set, the actions are the steps of   *)
(* the call, and the variables of the other components stay idle.          *)
(***************************************************************************)
EXTENDS Integers, Sequences, FiniteSets, TLC

(***************************************************************************)
(* Characters.  One representative per class the code distinguishes.       *)
(***************************************************************************)
SPACE == " "
DOT == "."

\* str.isspace() / the regex class \s (both Py_UNICODE_ISSPACE)
IsSpace(c) == c \in {" ", "\n", "\r", "\t"}

\* the sentence-final marks of the class [.!?]
IsEnder(c) == c \in {".", "!", "?"}

\* \d and str.isdigit() on ASCII
IsDigit(c) == c \in {"0", "1", "2", "3", "4", "5", "6", "7", "8", "9"}

\* the ASCII letters, index by index: str.lower() maps UpperLetters[k] to
\* LowerLetters[k] and leaves every other character alone
LowerLetters ==
    <<"a", "b", "c", "d", "e", "f", "g", "h", "i", "j", "k", "l", "m",
      "n", "o", "p", "q", "r", "s", "t", "u", "v", "w", "x", "y", "z">>
UpperLetters ==
    <<"A", "B", "C", "D", "E", "F", "G", "H", "I", "J", "K", "L", "M",
      "N", "O", "P", "Q", "R", "S", "T", "U", "V", "W", "X", "Y", "Z">>

LetterSet ==
    {LowerLetters[k] : k \in 1..Len(LowerLetters)}
        \cup {UpperLetters[k] : k \in 1..Len(UpperLetters)}

\* \p{L}
IsLetter(c) == c \in LetterSet

\* \w: letters, digits and the underscore
IsWordChar(c) == IsLetter(c) \/ IsDigit(c) \/ c = "_"

(***************************************************************************)
(* Generic string helpers.                                                 *)
(***************************************************************************)
\* the strings over alphabet A of length at most n
StringsUpTo(A, n) == UNION {[1..k -> A] : k \in 0..n}

\* first index >= i of s that holds no whitespace (Len(s)+1 when none)
RECURSIVE SkipSpaces(_, _)
SkipSpaces(s, i) ==
    IF i <= Len(s) /\ IsSpace(s[i]) THEN SkipSpaces(s, i + 1) ELSE i

\* last index <= i of s that holds no whitespace (0 when none)
RECURSIVE SkipSpacesBack(_, _)
SkipSpacesBack(s, i) ==
    IF i >= 1 /\ IsSpace(s[i]) THEN SkipSpacesBack(s, i - 1) ELSE i

\* str.strip()
Strip(s) == SubSeq(s, SkipSpaces(s, 1), SkipSpacesBack(s, Len(s)))

\* sep.join(parts)
RECURSIVE Join(_, _)
Join(parts, sep) ==
    IF parts = <<>> THEN <<>>
    ELSE IF Len(parts) = 1 THEN parts[1]
    ELSE parts[1] \o sep \o Join(Tail(parts), sep)

\* the concatenation of a sequence of sequences
RECURSIVE Flatten(_)
Flatten(ss) == IF ss = <<>> THEN <<>> ELSE ss[1] \o Flatten(Tail(ss))

\* str.split(sep): b is where the current part starts, k the scan position
RECURSIVE SplitOnFrom(_, _, _, _)
SplitOnFrom(s, sep, b, k) ==
    IF k + Len(sep) - 1 > Len(s) THEN <<SubSeq(s, b, Len(s))>>
    ELSE IF SubSeq(s, k, k + Len(sep) - 1) = sep
         THEN <<SubSeq(s, b, k - 1)>> \o SplitOnFrom(s, sep, k + Len(sep), k + Len(sep))
         ELSE SplitOnFrom(s, sep, b, k + 1)

SplitOn(s, sep) == SplitOnFrom(s, sep, 1, 1)

\* the slice s[:n]
Prefix(s, n) == SubSeq(s, 1, IF n < Len(s) THEN n ELSE Len(s))

\* the elements of a sequence, and the sum of a sequence of numbers
Range(s) == {s[i] : i \in DOMAIN s}

RECURSIVE SumSeq(_)
SumSeq(s) == IF s = <<>> THEN 0 ELSE s[1] + SumSeq(Tail(s))

(***************************************************************************)
(* SentenceSegmenter: re.compile(r'(?<=[.!?])\s+').split(text), then the   *)
(* fragments stripped and the empty ones dropped.  A match starts at a     *)
(* whitespace character that directly follows a sentence-final mark and    *)
(* takes the whole whitespace run.                                         *)
(***************************************************************************)
\* re.split: b is where the current fragment starts, i the scan position
RECURSIVE ReSplitFrom(_, _, _)
ReSplitFrom(s, b, i) ==
    IF i > Len(s) THEN <<SubSeq(s, b, Len(s))>>
    ELSE IF i >= 2 /\ IsEnder(s[i - 1]) /\ IsSpace(s[i])
         THEN LET e == SkipSpaces(s, i)
              IN  <<SubSeq(s, b, i - 1)>> \o ReSplitFrom(s, e, e)
         ELSE ReSplitFrom(s, b, i + 1)

RECURSIVE StripNonEmpty(_)
StripNonEmpty(frags) ==
    IF frags = <<>> THEN <<>>
    ELSE IF Strip(frags[1]) # <<>>
         THEN <<Strip(frags[1])>> \o StripNonEmpty(Tail(frags))
         ELSE StripNonEmpty(Tail(frags))

_split_into_sentences(text) == StripNonEmpty(ReSplitFrom(text, 1, 1))

(***************************************************************************)
(* TokenCounter: len(tiktoken.get_encoding("cl100k_base").encode(text)).   *)
(* The encoder first cuts the text into pieces with its pattern            *)
(*   [^\r\n\p{L}\p{N}]?\p{L}+ | \p{N}{1,3} | ?[^\s\p{L}\p{N}]+[\r\n]*      *)
(*   | \s*[\r\n]+ | \s+(?!\S) | \s+                                        *)
(* (alternatives tried in this order at each position) and merges byte     *)
(* pairs inside a piece only, never across two pieces.  The model counts   *)
(* the pieces: a short run of letters, of at most three digits, of         *)
(* punctuation or of blanks is one vocabulary entry.  The texts counted    *)
(* hold no line break, so the alternative \s*[\r\n]+ never matches.        *)
(***************************************************************************)
IsPunct(c) == ~IsSpace(c) /\ ~IsLetter(c) /\ ~IsDigit(c)

\* first index >= i of s that holds no letter / no punctuation
RECURSIVE SkipLetters(_, _)
SkipLetters(s, i) ==
    IF i <= Len(s) /\ IsLetter(s[i]) THEN SkipLetters(s, i + 1) ELSE i

RECURSIVE SkipPunct(_, _)
SkipPunct(s, i) ==
    IF i <= Len(s) /\ IsPunct(s[i]) THEN SkipPunct(s, i + 1) ELSE i

\* \p{N}{1,3}: at most three digits from i on
RECURSIVE SkipDigits(_, _, _)
SkipDigits(s, i, n) ==
    IF n > 0 /\ i <= Len(s) /\ IsDigit(s[i]) THEN SkipDigits(s, i + 1, n - 1) ELSE i

\* the index after the piece that starts at i
PieceEnd(s, i) ==
    LET hasNext == i + 1 <= Len(s)
    IN  IF /\ ~IsLetter(s[i]) /\ ~IsDigit(s[i]) /\ s[i] \notin {"\r", "\n"}
           /\ hasNext /\ IsLetter(s[i + 1])
            THEN SkipLetters(s, i + 1)               \* [^\r\n\p{L}\p{N}]?\p{L}+
        ELSE IF IsLetter(s[i]) THEN SkipLetters(s, i)
        ELSE IF IsDigit(s[i]) THEN SkipDigits(s, i, 3)       \* \p{N}{1,3}
        ELSE IF s[i] = SPACE /\ hasNext /\ IsPunct(s[i + 1])
            THEN SkipPunct(s, i + 1)                 \*  ?[^\s\p{L}\p{N}]+
        ELSE IF IsPunct(s[i]) THEN SkipPunct(s, i)
        ELSE LET e == SkipSpaces(s, i)               \* a whitespace run i..e-1
             IN  IF e > Len(s) THEN e                \* \s+(?!\S) at the end
                 ELSE IF e - i >= 2 THEN e - 1       \* \s+(?!\S): all but the last
                 ELSE e                              \* \s+

RECURSIVE CountPieces(_, _)
CountPieces(s, i) ==
    IF i > Len(s) THEN 0 ELSE 1 + CountPieces(s, PieceEnd(s, i))

token_count(text) == CountPieces(text, 1)


(***************************************************************************)
(* State.  pc is the position of the running call; op names the operation  *)
(* that was called.                                                        *)
(***************************************************************************)
VARIABLES
    op, pc,
    \* TextChunker.chunk_text: arguments, locals, and the list it returns
    text, token_limit, overlap_size,
    sentences, idx, current_chunk, current_tokens, chunks,
    \* history: the sentence indices packed in current_chunk / in each chunk
    current_members, members,
    \* PdfConverter.clean_text: the argument of the first call, the local
    \* text of the running call, and what each finished call returned
    ct_input, ct_text, ct_returned,
    \* clean_text of test_header_footer_removal.py (watermark stripping):
    \* the argument, the locals of the loop, and what the call returned
    wm_text, lines, line_i, cleaned_lines, removed_count, removed_samples, wm_returned,
    \* history: the indices of the lines appended to cleaned_lines
    kept,
    \* PdfConverter._remove_headers_footers_from_text: the argument, the
    \* locals, and the text returned
    hf_text, pages, page_sentences, all_sentences, duplicate_sentences,
    pattern_sentences, sentences_to_remove, cleaned_pages, hf_result,
    \* PdfConverter.convert: whether the imports of pdfminer and of PyMuPDF
    \* failed, the two options, the text the extractor gives for each page
    \* of the file, the locals of the page loop, and the outcome
    dependency_missing, pymupdf_missing, add_page_separators, remove_headers_footers,
    pdf_pages, page_no, result_parts, first_page, full_text, markdown

chunkVars == <<text, token_limit, overlap_size, sentences, idx,
               current_chunk, current_tokens, chunks, current_members, members>>

cleanVars == <<ct_input, ct_text, ct_returned>>

wmVars == <<wm_text, lines, line_i, cleaned_lines, removed_count, removed_samples,
            wm_returned, kept>>

hfVars == <<hf_text, pages, page_sentences, all_sentences, duplicate_sentences,
            pattern_sentences, sentences_to_remove, cleaned_pages, hf_result>>

convVars == <<dependency_missing, pymupdf_missing, add_page_separators,
              remove_headers_footers, pdf_pages, page_no, result_parts, first_page,
              full_text, markdown>>

vars == <<op, pc, chunkVars, cleanVars, wmVars, hfVars, convVars>>

\* what a call of one component leaves alone
notChunkVars == <<cleanVars, wmVars, hfVars, convVars>>
notCleanVars == <<chunkVars, wmVars, hfVars, convVars>>
notWmVars == <<chunkVars, cleanVars, hfVars, convVars>>
notHfVars == <<chunkVars, cleanVars, wmVars, convVars>>
notConvVars == <<chunkVars, cleanVars, wmVars, hfVars>>

(***************************************************************************)
(* Bounds of the chunker's inputs.                                         *)
(***************************************************************************)
MaxTextLen == 6
MaxTokenLimit == 3
\* the default of overlap_size
DefaultOverlap == 50

\* a letter, a digit, a sentence-final mark, a blank
ChunkAlphabet == {"a", "1", DOT, SPACE}

ChunkIdle ==
    /\ text = <<>> /\ token_limit = 0 /\ overlap_size = 0
    /\ sentences = <<>> /\ idx = 0
    /\ current_chunk = <<>> /\ current_tokens = 0 /\ chunks = <<>>
    /\ current_members = <<>> /\ members = <<>>

CleanIdle == ct_input = <<>> /\ ct_text = <<>> /\ ct_returned = <<>>

WmIdle ==
    /\ wm_text = <<>> /\ lines = <<>> /\ line_i = 0 /\ cleaned_lines = <<>>
    /\ removed_count = 0 /\ removed_samples = <<>> /\ wm_returned = <<>>
    /\ kept = <<>>

HfIdle ==
    /\ hf_text = <<>> /\ pages = <<>> /\ page_sentences = <<>>
    /\ all_sentences = <<>> /\ duplicate_sentences = {} /\ pattern_sentences = {}
    /\ sentences_to_remove = {} /\ cleaned_pages = <<>> /\ hf_result = <<>>

ConvIdle ==
    /\ dependency_missing = FALSE /\ pymupdf_missing = FALSE
    /\ add_page_separators = FALSE /\ remove_headers_footers = FALSE
    /\ pdf_pages = <<>> /\ page_no = 0 /\ result_parts = <<>> /\ first_page = TRUE
    /\ full_text = <<>> /\ markdown = <<>>

(***************************************************************************)
(* TextChunker.chunk_text                                                  *)
(***************************************************************************)
InitChunk ==
    /\ op = "chunk_text" /\ pc = "call"
    /\ CleanIdle /\ WmIdle /\ HfIdle /\ ConvIdle
    /\ text \in StringsUpTo(ChunkAlphabet, MaxTextLen)
    /\ token_limit \in 1..MaxTokenLimit
    /\ overlap_size \in {0, DefaultOverlap}
    /\ sentences = <<>> /\ idx = 0
    /\ current_chunk = <<>> /\ current_tokens = 0 /\ chunks = <<>>
    /\ current_members = <<>> /\ members = <<>>

\* TextChunker._clean_text
_clean_text(chunk) == Strip(chunk)

\* mutants of WouldExceed: the sentence's own count left out of the test,
\* and a limit that is one too high
WouldExceed_IgnoresSentence(cur_tokens, sentence_tokens, limit) ==
    cur_tokens > limit

WouldExceed_OffByOne(cur_tokens, sentence_tokens, limit) ==
    cur_tokens + sentence_tokens > limit + 1

\* the test that starts a new chunk
WouldExceed(cur_tokens, sentence_tokens, limit) ==
    cur_tokens + sentence_tokens > limit

\* a mutant of AppendSentence: the separating blank forgotten
AppendSentence_NoSeparator(chunk, sentence) == chunk \o sentence

\* the accumulator after a sentence that fits
AppendSentence(chunk, sentence) ==
    IF chunk # <<>> THEN chunk \o <<SPACE>> \o sentence ELSE sentence

\* a mutant of ChunkEmptyText: the empty text returned as its only chunk
ChunkEmptyText_OneEmptyChunk ==
    /\ op = "chunk_text" /\ pc = "call"
    /\ text = <<>>
    /\ pc' = "done"
    /\ chunks' = <<text>>
    /\ UNCHANGED <<notChunkVars, op, text, token_limit, overlap_size, sentences, idx,
                   current_chunk, current_tokens, current_members, members>>

\* if not text: return []
ChunkEmptyText ==
    /\ op = "chunk_text" /\ pc = "call"
    /\ text = <<>>
    /\ pc' = "done"
    /\ chunks' = <<>>
    /\ UNCHANGED <<notChunkVars, op, text, token_limit, overlap_size, sentences, idx,
                   current_chunk, current_tokens, current_members, members>>

\* sentences = self._split_into_sentences(text), and the locals' first values
ChunkSplit ==
    /\ op = "chunk_text" /\ pc = "call"
    /\ text # <<>>
    /\ sentences' = _split_into_sentences(text)
    /\ chunks' = <<>> /\ current_chunk' = <<>> /\ current_tokens' = 0
    /\ current_members' = <<>> /\ members' = <<>>
    /\ idx' = 1
    /\ pc' = "loop"
    /\ UNCHANGED <<notChunkVars, op, text, token_limit, overlap_size>>

\* one iteration whose sentence does not fit: the chunk so far is emitted
\* (when there is one) and the sentence starts the next chunk
ChunkFlush ==
    /\ op = "chunk_text" /\ pc = "loop"
    /\ idx <= Len(sentences)
    /\ LET sentence == Strip(sentences[idx])
           sentence_tokens == token_count(sentence)
       IN  /\ sentence # <<>>
           /\ WouldExceed(current_tokens, sentence_tokens, token_limit)
           /\ IF current_chunk # <<>>
                 THEN /\ chunks' = Append(chunks, _clean_text(current_chunk))
                      /\ members' = Append(members, current_members)
                 ELSE UNCHANGED <<chunks, members>>
           /\ current_chunk' = sentence
           /\ current_tokens' = sentence_tokens
           /\ current_members' = <<idx>>
    /\ idx' = idx + 1
    /\ UNCHANGED <<notChunkVars, op, pc, text, token_limit, overlap_size, sentences>>

\* one iteration whose sentence fits (or is blank and skipped)
ChunkAppend ==
    /\ op = "chunk_text" /\ pc = "loop"
    /\ idx <= Len(sentences)
    /\ LET sentence == Strip(sentences[idx])
           sentence_tokens == token_count(sentence)
       IN  IF sentence = <<>>
              THEN UNCHANGED <<current_chunk, current_tokens, current_members>>
              ELSE /\ ~WouldExceed(current_tokens, sentence_tokens, token_limit)
                   /\ current_chunk' = AppendSentence(current_chunk, sentence)
                   /\ current_tokens' = current_tokens + sentence_tokens
                   /\ current_members' = Append(current_members, idx)
    /\ idx' = idx + 1
    /\ UNCHANGED <<notChunkVars, op, pc, text, token_limit, overlap_size, sentences,
                   chunks, members>>

\* after the loop: the last chunk is emitted and the list returned
ChunkFinish ==
    /\ op = "chunk_text" /\ pc = "loop"
    /\ idx > Len(sentences)
    /\ IF current_chunk # <<>>
          THEN /\ chunks' = Append(chunks, _clean_text(current_chunk))
               /\ members' = Append(members, current_members)
          ELSE UNCHANGED <<chunks, members>>
    /\ pc' = "done"
    /\ UNCHANGED <<notChunkVars, op, text, token_limit, overlap_size, sentences, idx,
                   current_chunk, current_tokens, current_members>>

NextChunk ==
    \/ ChunkEmptyText
    \/ ChunkSplit
    \/ ChunkFlush
    \/ ChunkAppend
    \/ ChunkFinish

SpecChunk == InitChunk /\ [][NextChunk]_vars

ChunkDone == op = "chunk_text" /\ pc = "done"

(***************************************************************************)
(* Claims about chunk_text.                                                *)
(***************************************************************************)
\* whitespace-normalized: every whitespace character is a single blank
\* between two other characters
Normalized(s) ==
    \A i \in DOMAIN s :
        IsSpace(s[i]) => /\ s[i] = SPACE
                         /\ 1 < i /\ i < Len(s)
                         /\ ~IsSpace(s[i + 1])

\* the sentences of the input, as the segmenter cuts them
InputSentences == _split_into_sentences(text)

\* the sentences of S whose indices are ms, joined with single blanks
JoinedMembers(S, ms) == Join([k \in 1..Len(ms) |-> S[ms[k]]], <<SPACE>>)

\* the token counts of the sentences S, which is what the loop adds up
SentenceTokens(S) == [k \in 1..Len(S) |-> token_count(S[k])]

C2_ChunkWithinLimit ==
    ChunkDone =>
        LET tokens == SentenceTokens(InputSentences)
        IN  \A c \in 1..Len(chunks) :
                \/ token_count(chunks[c]) <= token_limit
                \/ Len(members[c]) = 1 /\ tokens[members[c][1]] > token_limit

\* C3: an oversized sentence is returned as a chunk of its own: one chunk
\* holds exactly that sentence, its text is the sentence unchanged, and no
\* other chunk holds the sentence.
C3_OversizedAlone ==
    ChunkDone =>
        LET S == InputSentences
            tokens == SentenceTokens(S)
        IN  \A k \in 1..Len(S) :
                tokens[k] > token_limit =>
                    /\ \E c \in 1..Len(chunks) :
                          members[c] = <<k>> /\ chunks[c] = S[k]
                    /\ \A c \in 1..Len(chunks) :
                          k \in Range(members[c]) => members[c] = <<k>>

\* C3 witness: an oversized sentence in the middle, between two sentences
\* that fit, each of the three in a chunk of its own
C3_Witness ==
    /\ ChunkDone
    /\ LET tokens == SentenceTokens(InputSentences)
       IN  /\ Len(tokens) = 3
           /\ tokens[1] <= token_limit
           /\ tokens[2] > token_limit
           /\ tokens[3] <= token_limit
    /\ members = <<<<1>>, <<2>>, <<3>>>>

\* C9 (as claimed, on a whitespace-normalized text): a text of T tokens is
\* returned as at least ceil(T / token_limit) chunks.
C9_AtLeastCeilChunks ==
    (ChunkDone /\ Normalized(text)) => Len(chunks) * token_limit >= token_count(text)

\* C9 (amended): when no sentence is oversized, the text is returned as at
\* least ceil(S / token_limit) chunks, S being the sum of the sentences' own
\* token counts.
C9_AtLeastCeilOfSentenceSum ==
    ChunkDone =>
        LET tokens == SentenceTokens(InputSentences)
        IN  (\A k \in 1..Len(tokens) : tokens[k] <= token_limit) =>
                Len(chunks) * token_limit >= SumSeq(tokens)

\* C9 witness: no oversized sentence, a sum above twice the limit, and three
\* chunks returned
C9_Witness ==
    /\ ChunkDone
    /\ LET tokens == SentenceTokens(InputSentences)
       IN  /\ \A k \in 1..Len(tokens) : tokens[k] <= token_limit
           /\ SumSeq(tokens) > 2 * token_limit
    /\ Len(chunks) = 3

(***************************************************************************)
(* PdfConverter.clean_text: whitespace normalization.                      *)
(***************************************************************************)
MaxCleanLen == 5
MaxCleanCalls == 2

\* a letter, and whitespace of four kinds
CleanAlphabet == {"a", SPACE, "\n", "\r", "\t"}

InitClean ==
    /\ op = "clean_text" /\ pc = "call"
    /\ ChunkIdle /\ WmIdle /\ HfIdle /\ ConvIdle
    /\ ct_input \in StringsUpTo(CleanAlphabet, MaxCleanLen)
    /\ ct_text = ct_input
    /\ ct_returned = <<>>

\* text.replace('\n', ' ').replace('\r', ' ')
ReplaceLineBreaks(s) ==
    [i \in 1..Len(s) |-> IF s[i] \in {"\n", "\r"} THEN SPACE ELSE s[i]]

\* a mutant of CollapseWhitespace: the pattern \s instead of \s+, every
\* whitespace character replaced on its own
CollapseWhitespace_PerCharacter(s) ==
    [i \in 1..Len(s) |-> IF IsSpace(s[i]) THEN SPACE ELSE s[i]]

\* re.compile(r"\s+").sub(" ", text): every maximal whitespace run becomes
\* one blank
RECURSIVE CollapseWhitespace(_)
CollapseWhitespace(s) ==
    IF s = <<>> THEN <<>>
    ELSE IF IsSpace(s[1])
         THEN <<SPACE>> \o CollapseWhitespace(SubSeq(s, SkipSpaces(s, 1), Len(s)))
         ELSE <<s[1]>> \o CollapseWhitespace(Tail(s))

\* if not text: return ""
CleanEmptyText ==
    /\ op = "clean_text" /\ pc = "call"
    /\ ct_text = <<>>
    /\ ct_returned' = Append(ct_returned, <<>>)
    /\ pc' = "done"
    /\ UNCHANGED <<notCleanVars, op, ct_input, ct_text>>

CleanReplace ==
    /\ op = "clean_text" /\ pc = "call"
    /\ ct_text # <<>>
    /\ ct_text' = ReplaceLineBreaks(ct_text)
    /\ pc' = "replaced"
    /\ UNCHANGED <<notCleanVars, op, ct_input, ct_returned>>

CleanCollapse ==
    /\ op = "clean_text" /\ pc = "replaced"
    /\ ct_text' = CollapseWhitespace(ct_text)
    /\ pc' = "collapsed"
    /\ UNCHANGED <<notCleanVars, op, ct_input, ct_returned>>

\* return text.strip()
CleanReturn ==
    /\ op = "clean_text" /\ pc = "collapsed"
    /\ ct_returned' = Append(ct_returned, Strip(ct_text))
    /\ pc' = "done"
    /\ UNCHANGED <<notCleanVars, op, ct_input, ct_text>>

\* the caller passes the returned text to clean_text once more
CleanCallAgain ==
    /\ op = "clean_text" /\ pc = "done"
    /\ Len(ct_returned) < MaxCleanCalls
    /\ ct_text' = ct_returned[Len(ct_returned)]
    /\ pc' = "call"
    /\ UNCHANGED <<notCleanVars, op, ct_input, ct_returned>>

NextClean ==
    \/ CleanEmptyText
    \/ CleanReplace
    \/ CleanCollapse
    \/ CleanReturn
    \/ CleanCallAgain

SpecClean == InitClean /\ [][NextClean]_vars

\* C8: what clean_text returns holds no line break, no two whitespace
\* characters in a row and no whitespace at either end, and clean_text
\* applied to what it returned returns the same text again.
C8_CleanTextIdempotent ==
    op = "clean_text" =>
        /\ \A k \in 1..Len(ct_returned) :
              LET out == ct_returned[k]
              IN  /\ \A i \in 1..Len(out) : out[i] \notin {"\n", "\r"}
                  /\ \A i \in 1..(Len(out) - 1) : ~(IsSpace(out[i]) /\ IsSpace(out[i + 1]))
                  /\ out # <<>> => ~IsSpace(out[1]) /\ ~IsSpace(out[Len(out)])
        /\ \A k \in 2..Len(ct_returned) : ct_returned[k] = ct_returned[k - 1]

\* C8 witness: a text with a newline, a carriage return and leading
\* whitespace was cleaned twice, and the first call changed it to a text
\* that still holds a blank
C8_Witness ==
    /\ op = "clean_text" /\ pc = "done" /\ Len(ct_returned) = 2
    /\ \E i \in 1..Len(ct_input) : ct_input[i] = "\n"
    /\ \E i \in 1..Len(ct_input) : ct_input[i] = "\r"
    /\ IsSpace(ct_input[1])
    /\ \E i \in 1..Len(ct_returned[1]) : ct_returned[1][i] = SPACE

(***************************************************************************)
(* clean_text of test_header_footer_removal.py: watermark stripping on the *)
(* lines of the text, then whitespace normalization.                       *)
(***************************************************************************)
\* looks_like_margin_mark: min_tokens, and ratio = 0.80 as RatioNum / RatioDen
MinTokens == 8
RatioNum == 4
RatioDen == 5
\* a vertical watermark: lines of at most MaxShortLen characters, MinBlock
\* or more of them in a row
MaxShortLen == 2
MinBlock == 8
\* removed_samples holds at most MaxSamples entries of at most MaxSampleLines lines
MaxSamples == 3
MaxSampleLines == 20

\* first index >= k of s that holds whitespace (Len(s)+1 when none)
RECURSIVE SkipNonSpaces(_, _)
SkipNonSpaces(s, k) ==
    IF k <= Len(s) /\ ~IsSpace(s[k]) THEN SkipNonSpaces(s, k + 1) ELSE k

\* str.split(): the maximal runs of non-whitespace characters
RECURSIVE SplitWhitespaceFrom(_, _)
SplitWhitespaceFrom(s, k) ==
    LET b == SkipSpaces(s, k)
    IN  IF b > Len(s) THEN <<>>
        ELSE LET e == SkipNonSpaces(s, b)
             IN  <<SubSeq(s, b, e - 1)>> \o SplitWhitespaceFrom(s, e)

SplitWhitespace(s) == SplitWhitespaceFrom(s, 1)

\* how many elements of a sequence satisfy a test
CountSingles(tokens) == Cardinality({k \in 1..Len(tokens) : Len(tokens[k]) = 1})

\* a mutant of looks_like_margin_mark: the ratio compared with > instead of >=
looks_like_margin_mark_StrictRatio(line) ==
    LET tokens == SplitWhitespace(Strip(line))
    IN  IF Len(tokens) < MinTokens THEN FALSE
        ELSE CountSingles(tokens) * RatioDen > RatioNum * Len(tokens)

looks_like_margin_mark(line) ==
    LET tokens == SplitWhitespace(Strip(line))
    IN  IF Len(tokens) < MinTokens THEN FALSE
        ELSE CountSingles(tokens) * RatioDen >= RatioNum * Len(tokens)

\* the test of the inner while loop on one line
IsShortLine(line) == Len(Strip(line)) <= MaxShortLen /\ Strip(line) # <<>>

\* the inner while loop: the first index >= j whose line is not short
RECURSIVE VertBlockEnd(_, _)
VertBlockEnd(ls, j) ==
    IF j <= Len(ls) /\ IsShortLine(ls[j]) THEN VertBlockEnd(ls, j + 1) ELSE j

\* vert_block for the block start..stop-1
VertBlock(ls, start, stop) == [k \in 1..(stop - start) |-> Strip(ls[start + k - 1])]

\* a mutant of BlockIsWatermark: a block of exactly MinBlock lines is kept
BlockIsWatermark_OneMore(vert_block) == Len(vert_block) > MinBlock

\* if len(vert_block) >= 8
BlockIsWatermark(vert_block) == Len(vert_block) >= MinBlock

\* 2) the whitespace flattening at the end of clean_text
Flattened(s) == Strip(CollapseWhitespace(ReplaceLineBreaks(s)))

(***************************************************************************)
(* The texts given to it.                                                  *)
(***************************************************************************)
MaxLineTokens == 10
MaxRunLines == 9

\* n copies of a string
Copies(n, str) == [k \in 1..n |-> str]

\* a line of s one-character tokens followed by m two-character tokens
TokenLine(s, m) == Join(Copies(s, <<"x">>) \o Copies(m, <<"a", "b">>), <<SPACE>>)

TokenLines ==
    UNION {{TokenLine(s, m) : m \in 0..(MaxLineTokens - s)} : s \in 0..MaxLineTokens}

\* texts of one or two lines of tokens
MarginTexts ==
    {l1 : l1 \in TokenLines}
      \cup {l1 \o <<"\n">> \o l2 : l1 \in TokenLines, l2 \in TokenLines}

\* the forms of a short line, and of a line that ends a run of short lines
ShortLines == {<<"x">>, <<"x", "y">>, <<SPACE, "x", "\r">>}
BreakerLines == {<<>>, <<"a", "b", "c">>, <<SPACE>>, TokenLine(MinTokens, 0)}

\* texts of at most MaxRunLines lines, each a short line or a breaker
RunTextsOf(n) ==
    {Join([k \in 1..n |-> IF pattern[k] THEN short ELSE breaker], <<"\n">>) :
        pattern \in [1..n -> BOOLEAN], short \in ShortLines, breaker \in BreakerLines}

RunTexts == UNION {RunTextsOf(n) : n \in 0..MaxRunLines}

InitWm ==
    /\ op = "wm_clean_text" /\ pc = "call"
    /\ ChunkIdle /\ CleanIdle /\ HfIdle /\ ConvIdle
    /\ wm_text \in MarginTexts \cup RunTexts
    /\ lines = <<>> /\ line_i = 0 /\ cleaned_lines = <<>>
    /\ removed_count = 0 /\ removed_samples = <<>> /\ wm_returned = <<>>
    /\ kept = <<>>

\* if not text: return ""
WmEmptyText ==
    /\ op = "wm_clean_text" /\ pc = "call"
    /\ wm_text = <<>>
    /\ wm_returned' = Append(wm_returned, <<>>)
    /\ pc' = "done"
    /\ UNCHANGED <<notWmVars, op, wm_text, lines, line_i, cleaned_lines,
                   removed_count, removed_samples, kept>>

\* lines = text.split("\n"); i = 0 (the model counts lines from 1)
WmSplitLines ==
    /\ op = "wm_clean_text" /\ pc = "call"
    /\ wm_text # <<>>
    /\ lines' = SplitOn(wm_text, <<"\n">>)
    /\ line_i' = 1
    /\ cleaned_lines' = <<>> /\ removed_samples' = <<>> /\ removed_count' = 0
    /\ kept' = <<>>
    /\ pc' = "loop"
    /\ UNCHANGED <<notWmVars, op, wm_text, wm_returned>>

\* Case A: the line looks like a margin mark and is dropped
WmDropMarginLine ==
    /\ op = "wm_clean_text" /\ pc = "loop"
    /\ line_i <= Len(lines)
    /\ looks_like_margin_mark(lines[line_i])
    /\ removed_count' = removed_count + 1
    /\ removed_samples' =
          IF Len(removed_samples) < MaxSamples
             THEN Append(removed_samples, Strip(lines[line_i]))
             ELSE removed_samples
    /\ line_i' = line_i + 1
    /\ UNCHANGED <<notWmVars, op, pc, wm_text, lines, cleaned_lines, wm_returned, kept>>

\* Case B: a block of MinBlock or more short lines starts here and is skipped
WmDropVerticalBlock ==
    /\ op = "wm_clean_text" /\ pc = "loop"
    /\ line_i <= Len(lines)
    /\ ~looks_like_margin_mark(lines[line_i])
    /\ LET j == VertBlockEnd(lines, line_i)
           vert_block == VertBlock(lines, line_i, j)
       IN  /\ BlockIsWatermark(vert_block)
           /\ removed_count' = removed_count + Len(vert_block)
           /\ removed_samples' =
                 IF Len(removed_samples) < MaxSamples
                    THEN Append(removed_samples,
                                Join(Prefix(vert_block, MaxSampleLines), <<SPACE>>))
                    ELSE removed_samples
           /\ line_i' = j
    /\ UNCHANGED <<notWmVars, op, pc, wm_text, lines, cleaned_lines, wm_returned, kept>>

\* a normal line: kept
WmKeepLine ==
    /\ op = "wm_clean_text" /\ pc = "loop"
    /\ line_i <= Len(lines)
    /\ ~looks_like_margin_mark(lines[line_i])
    /\ ~BlockIsWatermark(VertBlock(lines, line_i, VertBlockEnd(lines, line_i)))
    /\ cleaned_lines' = Append(cleaned_lines, lines[line_i])
    /\ kept' = Append(kept, line_i)
    /\ line_i' = line_i + 1
    /\ UNCHANGED <<notWmVars, op, pc, wm_text, lines, removed_count, removed_samples,
                   wm_returned>>

\* after the loop: the kept lines joined, flattened and returned
WmFinish ==
    /\ op = "wm_clean_text" /\ pc = "loop"
    /\ line_i > Len(lines)
    /\ wm_returned' = Append(wm_returned, Flattened(Join(cleaned_lines, <<"\n">>)))
    /\ pc' = "done"
    /\ UNCHANGED <<notWmVars, op, wm_text, lines, line_i, cleaned_lines,
                   removed_count, removed_samples, kept>>

NextWm ==
    \/ WmEmptyText
    \/ WmSplitLines
    \/ WmDropMarginLine
    \/ WmDropVerticalBlock
    \/ WmKeepLine
    \/ WmFinish

SpecWm == InitWm /\ [][NextWm]_vars

WmDone == op = "wm_clean_text" /\ pc = "done" /\ wm_text # <<>>

(***************************************************************************)
(* Claims about the watermark stripping.                                   *)
(***************************************************************************)
\* the lines of the argument, and the words of a line
InputLines == SplitOn(wm_text, <<"\n">>)
Words(line) == SplitWhitespace(line)

\* the line has 8 or more tokens, 80% or more of them one character long
IsMargin(line) ==
    LET tokens == Words(line)
        single == Cardinality({t \in 1..Len(tokens) : Len(tokens[t]) = 1})
    IN  Len(tokens) >= 8 /\ 5 * single >= 4 * Len(tokens)

\* the line is not empty and at most 2 characters long once trimmed
IsShort(line) ==
    LET trimmed == Strip(line)
    IN  trimmed # <<>> /\ Len(trimmed) <= 2

\* C6: a line with 8 or more tokens of which 80% or more are one character
\* long is dropped; a line that is neither such a line nor a short line (the
\* only lines a vertical block takes) is kept; and the words of the returned
\* text are the words of the kept lines, unchanged and in order.
C6_MarginMarkDropped ==
    WmDone =>
        LET L == InputLines
            keptSet == Range(kept)
        IN  /\ \A k \in 1..Len(L) :
                  /\ IsMargin(L[k]) => k \notin keptSet
                  /\ (~IsMargin(L[k]) /\ ~IsShort(L[k])) => k \in keptSet
            /\ Words(wm_returned[1]) =
                  Flatten([k \in 1..Len(kept) |-> Words(L[kept[k]])])

\* C6 witness: a line of 10 one-character tokens was dropped and a line of
\* 10 two-character words was returned unchanged
C6_Witness ==
    /\ WmDone
    /\ InputLines = <<TokenLine(10, 0), TokenLine(0, 10)>>
    /\ kept = <<2>>
    /\ wm_returned = <<TokenLine(0, 10)>>

\* lines a..b are a maximal run of short lines; short[k] says line k is short
MaximalShortRun(short, a, b) ==
    /\ \A k \in a..b : short[k]
    /\ a = 1 \/ ~short[a - 1]
    /\ b = Len(short) \/ ~short[b + 1]

ShortFlags == LET L == InputLines IN [k \in 1..Len(L) |-> IsShort(L[k])]

\* C7: of a maximal run of 8 or more short lines no line is kept, and of a
\* maximal run of 7 or fewer short lines every line is kept.
C7_VerticalBlockDropped ==
    WmDone =>
        LET short == ShortFlags
            keptSet == Range(kept)
        IN  \A a \in 1..Len(short) : \A b \in a..Len(short) :
                MaximalShortRun(short, a, b) =>
                    /\ (b - a + 1 >= 8) => \A k \in a..b : k \notin keptSet
                    /\ (b - a + 1 <= 7) => \A k \in a..b : k \in keptSet

\* C7 witness: a run of exactly 8 short lines that follows another line was
\* dropped as a whole, the line before it kept
C7_Witness ==
    /\ WmDone
    /\ Len(lines) = 9
    /\ MaximalShortRun(ShortFlags, 2, 9)
    /\ kept = <<1>>
    /\ removed_count = 8

\* a run of 7 short lines and a short line after a breaker, kept in full
C7_RunOfSevenKept ==
    /\ WmDone
    /\ Len(lines) = 9
    /\ LET short == ShortFlags IN MaximalShortRun(short, 1, 7) /\ short[9]
    /\ kept = <<1, 2, 3, 4, 5, 6, 7, 8, 9>>

(***************************************************************************)
(* PdfConverter._remove_headers_footers_from_text and its helpers.         *)
(***************************************************************************)
(* clean_text applied to what clean_text returned.                         *)
(***************************************************************************)
MaxWmCalls == 2

\* the caller passes the returned text to clean_text once more
WmCallAgain ==
    /\ op = "wm_clean_text" /\ pc = "done"
    /\ Len(wm_returned) < MaxWmCalls
    /\ wm_text' = wm_returned[Len(wm_returned)]
    /\ lines' = <<>> /\ line_i' = 0 /\ cleaned_lines' = <<>>
    /\ removed_count' = 0 /\ removed_samples' = <<>> /\ kept' = <<>>
    /\ pc' = "call"
    /\ UNCHANGED <<notWmVars, op, wm_returned>>

NextWmTwice ==
    \/ NextWm
    \/ WmCallAgain

SpecWmTwice == InitWm /\ [][NextWmTwice]_vars

\* C17: clean_text applied to what clean_text returned returns the same
\* text again.
C17_TwoPassCleanIdempotent ==
    op = "wm_clean_text" =>
        \A k \in 2..Len(wm_returned) : wm_returned[k] = wm_returned[k - 1]

(***************************************************************************)
\* the marker the text is split on, and the one the pages are rejoined with
SplitMarker == <<"-", "-", "-">>
JoinMarker == <<SPACE, "-", "-", "-", SPACE>>

\* _find_sentence_patterns, strategy 1: shared meaningful words needed with
\* one other sentence, and other sentences needed
MinSharedWords == 2
MinSharedSentences == 2
\* strategy 2: least length of a structure, least number of 'N' in it, and
\* other sentences of the same structure needed
MinStructureLen == 5
MinPlaceholders == 2
MinSameStructure == 2
\* _remove_headers_footers_simple: texts of at most MaxUntouchedLines lines
\* are returned as they are, EdgeLines lines are looked at on either end, a
\* line shorter than ShortLineLen is dropped
MaxUntouchedLines == 4
EdgeLines == 2
ShortLineLen == 20

\* the words the shared-word count ignores
StopWords ==
    {<<"t", "h", "e">>, <<"o", "f">>, <<"t", "o">>, <<"a", "n", "d">>,
     <<"o", "r">>, <<"i", "n">>, <<"o", "n">>, <<"a", "t">>,
     <<"f", "o", "r">>, <<"w", "i", "t", "h">>, <<"b", "y">>,
     <<"f", "r", "o", "m">>, <<"u", "p">>, <<"d", "o", "w", "n">>,
     <<"o", "u", "t">>, <<"o", "f", "f">>, <<"o", "v", "e", "r">>,
     <<"u", "n", "d", "e", "r">>, <<"i", "n", "t", "o">>,
     <<"o", "n", "t", "o">>, <<"u", "p", "o", "n">>,
     <<"w", "i", "t", "h", "i", "n">>, <<"w", "i", "t", "h", "o", "u", "t">>,
     <<"t", "h", "r", "o", "u", "g", "h">>,
     <<"t", "h", "r", "o", "u", "g", "h", "o", "u", "t">>,
     <<"d", "u", "r", "i", "n", "g">>, <<"b", "e", "f", "o", "r", "e">>,
     <<"a", "f", "t", "e", "r">>, <<"s", "i", "n", "c", "e">>,
     <<"u", "n", "t", "i", "l">>, <<"w", "h", "i", "l", "e">>,
     <<"w", "h", "e", "r", "e">>, <<"w", "h", "e", "n">>, <<"w", "h", "y">>,
     <<"h", "o", "w">>, <<"w", "h", "a", "t">>, <<"w", "h", "i", "c", "h">>,
     <<"w", "h", "o">>, <<"w", "h", "o", "m">>, <<"w", "h", "o", "s", "e">>,
     <<"t", "h", "i", "s">>, <<"t", "h", "a", "t">>,
     <<"t", "h", "e", "s", "e">>, <<"t", "h", "o", "s", "e">>, <<"a">>,
     <<"a", "n">>, <<"i", "s">>, <<"a", "r", "e">>, <<"w", "a", "s">>,
     <<"w", "e", "r", "e">>, <<"b", "e">>, <<"b", "e", "e", "n">>,
     <<"b", "e", "i", "n", "g">>, <<"h", "a", "v", "e">>, <<"h", "a", "s">>,
     <<"h", "a", "d">>, <<"d", "o">>, <<"d", "o", "e", "s">>,
     <<"d", "i", "d">>, <<"w", "i", "l", "l">>, <<"w", "o", "u", "l", "d">>,
     <<"c", "o", "u", "l", "d">>, <<"s", "h", "o", "u", "l", "d">>,
     <<"m", "a", "y">>, <<"m", "i", "g", "h", "t">>, <<"c", "a", "n">>,
     <<"m", "u", "s", "t">>, <<"s", "h", "a", "l", "l">>}

\* the phrases and keywords of _remove_headers_footers_simple
BoilerplatePhrases ==
    {<<"p", "a", "g", "e">>,
     <<"p", "a", "g", "e", " ", "o", "f">>,
     <<"c", "o", "n", "f", "i", "d", "e", "n", "t", "i", "a", "l">>,
     <<"d", "r", "a", "f", "t">>,
     <<"f", "i", "n", "a", "l">>}
LegalKeywords ==
    {<<"c", "o", "p", "y", "r", "i", "g", "h", "t">>,
     <<"a", "l", "l", " ", "r", "i", "g", "h", "t", "s", " ", "r", "e", "s", "e", "r", "v", "e", "d">>,
     <<"p", "r", "o", "p", "r", "i", "e", "t", "a", "r", "y">>}

\* first index >= k of s that holds a word character / no word character
RECURSIVE SkipNonWord(_, _)
SkipNonWord(s, k) ==
    IF k <= Len(s) /\ ~IsWordChar(s[k]) THEN SkipNonWord(s, k + 1) ELSE k

RECURSIVE SkipWord(_, _)
SkipWord(s, k) ==
    IF k <= Len(s) /\ IsWordChar(s[k]) THEN SkipWord(s, k + 1) ELSE k

\* set(re.findall(r'\b\w+\b', s)): the maximal runs of word characters
RECURSIVE FindWordsFrom(_, _)
FindWordsFrom(s, k) ==
    LET b == SkipNonWord(s, k)
    IN  IF b > Len(s) THEN {}
        ELSE LET e == SkipWord(s, b)
             IN  {SubSeq(s, b, e - 1)} \cup FindWordsFrom(s, e)

FindWords(s) == FindWordsFrom(s, 1)

\* first index >= k of s that holds no digit
RECURSIVE SkipAllDigits(_, _)
SkipAllDigits(s, k) ==
    IF k <= Len(s) /\ IsDigit(s[k]) THEN SkipAllDigits(s, k + 1) ELSE k

\* re.sub(r'\d+', 'N', s): every maximal run of digits becomes one N
RECURSIVE MaskFrom(_, _)
MaskFrom(s, k) ==
    IF k > Len(s) THEN <<>>
    ELSE IF IsDigit(s[k]) THEN <<"N">> \o MaskFrom(s, SkipAllDigits(s, k))
    ELSE <<s[k]>> \o MaskFrom(s, k + 1)

Structure(s) == MaskFrom(s, 1)

\* str.count(c) for one character
CountChar(s, c) == Cardinality({k \in 1..Len(s) : s[k] = c})

\* re.search(r'\d', s)
HasDigit(s) == \E k \in 1..Len(s) : IsDigit(s[k])

\* a mutant of MeaningfulStructure: one placeholder is enough
MeaningfulStructure_OnePlaceholder(structure) ==
    ~(Len(structure) < MinStructureLen \/ CountChar(structure, "N") < 1)

\* the structures strategy 2 considers
MeaningfulStructure(structure) ==
    ~(Len(structure) < MinStructureLen \/ CountChar(structure, "N") < MinPlaceholders)

\* a mutant of SharesMeaningfulWords: the stop words are not taken out
SharesMeaningfulWords_KeepStopWords(words, other_words) ==
    Cardinality(words \cap other_words) >= MinSharedWords

\* two sentences share MinSharedWords or more words that are no stop words
SharesMeaningfulWords(words, other_words) ==
    Cardinality((words \cap other_words) \ StopWords) >= MinSharedWords

\* strategy 1: the sentences with a digit that share meaningful words with
\* MinSharedSentences or more other sentences
SharedWordPatterns(sents) ==
    LET n == Len(sents)
        words == [k \in 1..n |-> FindWords(sents[k])]
        shared_count(k) ==
            Cardinality({j \in 1..n :
                j # k /\ SharesMeaningfulWords(words[k], words[j])})
    IN  {sents[k] : k \in {k \in 1..n : /\ HasDigit(sents[k])
                                         /\ words[k] # {}
                                         /\ shared_count(k) >= MinSharedSentences}}

\* strategy 2: the sentences of a meaningful structure that MinSameStructure
\* or more other sentences have as well
StructurePatterns(sents) ==
    LET n == Len(sents)
        structures == [k \in 1..n |-> Structure(sents[k])]
        structure_count(k) ==
            Cardinality({j \in 1..n : j # k /\ structures[k] = structures[j]})
    IN  {sents[k] : k \in {k \in 1..n : /\ MeaningfulStructure(structures[k])
                                         /\ structure_count(k) >= MinSameStructure}}

_find_sentence_patterns(sents) ==
    IF Len(sents) < 2 THEN {}
    ELSE SharedWordPatterns(sents) \cup StructurePatterns(sents)

\* Counter(all_sentences)[s]
CountOf(sents, s) == Cardinality({k \in 1..Len(sents) : sents[k] = s})

\* a mutant of DuplicateSentences: a sentence counts as duplicate from 3
\* occurrences on
DuplicateSentences_ThreeTimes(sents) == {s \in Range(sents) : CountOf(sents, s) > 2}

\* {sentence for sentence, count in sentence_counts.items() if count > 1}
DuplicateSentences(sents) == {s \in Range(sents) : CountOf(sents, s) > 1}

\* the pages that are not blank, stripped and cut into sentences
RECURSIVE PageSentences(_)
PageSentences(ps) ==
    IF ps = <<>> THEN <<>>
    ELSE IF Strip(ps[1]) # <<>>
         THEN <<_split_into_sentences(Strip(ps[1]))>> \o PageSentences(Tail(ps))
         ELSE PageSentences(Tail(ps))

\* [s for s in sentences if s not in sentences_to_remove]
RECURSIVE Without(_, _)
Without(sents, removed) ==
    IF sents = <<>> THEN <<>>
    ELSE IF sents[1] \in removed THEN Without(Tail(sents), removed)
    ELSE <<sents[1]>> \o Without(Tail(sents), removed)

\* a mutant of CleanedPages: the pages left without a sentence are kept
CleanedPages_KeepsEmptyPages(pss, removed) ==
    [k \in 1..Len(pss) |-> Join(Without(pss[k], removed), <<SPACE>>)]

\* the loop that builds cleaned_pages
RECURSIVE CleanedPages(_, _)
CleanedPages(pss, removed) ==
    IF pss = <<>> THEN <<>>
    ELSE LET cleaned_page == Join(Without(pss[1], removed), <<SPACE>>)
         IN  IF Strip(cleaned_page) # <<>>
                THEN <<cleaned_page>> \o CleanedPages(Tail(pss), removed)
                ELSE CleanedPages(Tail(pss), removed)

\* str.lower()
LowerChar(c) ==
    IF \E k \in 1..Len(UpperLetters) : UpperLetters[k] = c
       THEN LowerLetters[CHOOSE k \in 1..Len(UpperLetters) : UpperLetters[k] = c]
       ELSE c

Lower(s) == [k \in 1..Len(s) |-> LowerChar(s[k])]

\* str.isdigit(): not empty, digits only
IsAllDigits(s) == s # <<>> /\ \A k \in 1..Len(s) : IsDigit(s[k])

\* sub in s
Contains(s, sub) ==
    \E k \in 1..(Len(s) - Len(sub) + 1) : SubSeq(s, k, k + Len(sub) - 1) = sub

\* the test of _remove_headers_footers_simple on a stripped line
IsHeaderFooterLine(line) ==
    \/ IsAllDigits(line)
    \/ Len(line) < ShortLineLen
    \/ Lower(line) \in BoilerplatePhrases
    \/ \E word \in LegalKeywords : Contains(Lower(line), word)

Min(a, b) == IF a < b THEN a ELSE b

\* the header loop: the last i + 1, i in range(min(2, len(lines))), whose
\* line lines[i] passes the test (0 when none does)
HeaderLinesToRemove(ls) ==
    LET hits == {k \in 1..Min(EdgeLines, Len(ls)) : IsHeaderFooterLine(Strip(ls[k]))}
    IN  IF hits = {} THEN 0 ELSE CHOOSE k \in hits : \A h \in hits : h <= k

\* the footer loop: the same over lines[-(i+1)]
FooterLinesToRemove(ls) ==
    LET hits == {k \in 1..Min(EdgeLines, Len(ls)) :
                    IsHeaderFooterLine(Strip(ls[Len(ls) + 1 - k]))}
    IN  IF hits = {} THEN 0 ELSE CHOOSE k \in hits : \A h \in hits : h <= k

\* the slices lines[n:] and lines[:-n]
DropFirst(ls, n) == SubSeq(ls, Min(n, Len(ls)) + 1, Len(ls))
DropLast(ls, n) == SubSeq(ls, 1, Len(ls) - Min(n, Len(ls)))

\* a mutant of _remove_headers_footers_simple: only texts of fewer than
\* MaxUntouchedLines lines are left alone
_remove_headers_footers_simple_OneLineLess(t) ==
    LET ls == SplitOn(t, <<"\n">>)
    IN  IF Len(ls) < MaxUntouchedLines THEN t
        ELSE Join(DropLast(DropFirst(ls, HeaderLinesToRemove(ls)),
                           FooterLinesToRemove(ls)), <<"\n">>)

_remove_headers_footers_simple(t) ==
    LET ls == SplitOn(t, <<"\n">>)
    IN  IF Len(ls) <= MaxUntouchedLines THEN t
        ELSE LET header_lines_to_remove == HeaderLinesToRemove(ls)
                 footer_lines_to_remove == FooterLinesToRemove(ls)
                 afterHeader == IF header_lines_to_remove > 0
                                   THEN DropFirst(ls, header_lines_to_remove)
                                   ELSE ls
                 afterFooter == IF footer_lines_to_remove > 0
                                   THEN DropLast(afterHeader, footer_lines_to_remove)
                                   ELSE afterHeader
             IN  Join(afterFooter, <<"\n">>)

(***************************************************************************)
(* The texts given to it: documents of pages joined with the marker, and   *)
(* texts of lines without a marker.                                        *)
(***************************************************************************)
MaxPages == 3
MaxSimpleLines == 5

DigitChars == <<"1", "2", "3", "4", "5", "6", "7", "8", "9">>

\* a corpus: a header sentence H, the page marker M[k] of page k, and a body
\* sentence B
ReportCorpus ==
    [H |-> <<"A", "n", "n", "u", "a", "l", " ", "R", "e", "p", "o", "r", "t", " ", "2", "0", "2", "3", ".">>,
     M |-> [k \in 1..Len(DigitChars) |-> <<"P", "a", "g", "e", SPACE, DigitChars[k], DOT>>],
     B |-> <<"B", "o", "d", "y", " ", "t", "e", "x", "t", ".">>]

PageOfCorpus ==
    [H |-> <<"D", "r", "a", "f", "t", ".">>,
     M |-> [k \in 1..Len(DigitChars) |->
              <<"P", "a", "g", "e", SPACE, DigitChars[k], SPACE, "o", "f", SPACE, "9", DOT>>],
     B |-> <<"T", "o", "p", " ", "o", "f", " ", "9", ".">>]

TemplateCorpus ==
    [H |-> <<"I", "n", "t", "r", "o", ".">>,
     M |-> [k \in 1..Len(DigitChars) |->
              <<"P", "a", "r", "t", SPACE, DigitChars[k], SPACE, "o", "f", SPACE, "9", DOT>>],
     B |-> <<"P", "a", "r", "t", " ", "N", " ", "o", "f", " ", "N", ".">>]

Corpora == {ReportCorpus, PageOfCorpus, TemplateCorpus}

\* what page k may hold: each of the three sentences at most once, in the
\* order header, marker, body, or the header twice
PageChoices(c, k) ==
    {<<>>, <<c.H>>, <<c.M[k]>>, <<c.B>>, <<c.H, c.M[k]>>, <<c.H, c.B>>,
     <<c.M[k], c.B>>, <<c.H, c.M[k], c.B>>, <<c.H, c.H>>}

\* the documents of n pages over corpus c, each page a list of sentences
RECURSIVE DocumentsOf(_, _)
DocumentsOf(c, n) ==
    IF n = 0 THEN {<<>>}
    ELSE {Append(d, page) : d \in DocumentsOf(c, n - 1), page \in PageChoices(c, n)}

\* a document as text: the sentences of a page joined with blanks, the
\* pages with the marker
DocumentText(d) == Join([k \in 1..Len(d) |-> Join(d[k], <<SPACE>>)], JoinMarker)

PagedTexts ==
    {DocumentText(d) : d \in UNION {DocumentsOf(c, n) : c \in Corpora, n \in 0..MaxPages}}

\* the lines of a text without marker: 20 digits, a short phrase, 20
\* letters, and a long line with a legal keyword
SimpleLines ==
    {Copies(ShortLineLen, "7"), <<"P", "a", "g", "e">>, Copies(ShortLineLen, "a"),
     <<"C", "o", "p", "y", "r", "i", "g", "h", "t", " ", "b", "y", " ", "E", "x", "a", "m", "p", "l", "e", " ", "I", "n", "c", ".">>}

SimpleTexts ==
    {Join(ls, <<"\n">>) : ls \in UNION {[1..n -> SimpleLines] : n \in 0..MaxSimpleLines}}

InitHf ==
    /\ op = "_remove_headers_footers_from_text" /\ pc = "call"
    /\ ChunkIdle /\ CleanIdle /\ WmIdle /\ ConvIdle
    /\ hf_text \in PagedTexts \cup SimpleTexts
    /\ pages = <<>> /\ page_sentences = <<>>
    /\ all_sentences = <<>> /\ duplicate_sentences = {} /\ pattern_sentences = {}
    /\ sentences_to_remove = {} /\ cleaned_pages = <<>> /\ hf_result = <<>>

HfRunning(at) == op = "_remove_headers_footers_from_text" /\ pc = at

\* pages = text.split('---'), and the choice of the approach
HfSplitPages ==
    /\ HfRunning("call")
    /\ pages' = SplitOn(hf_text, SplitMarker)
    /\ pc' = IF Len(pages') <= 1 THEN "simple" ELSE "pages"
    /\ UNCHANGED <<notHfVars, op, hf_text, page_sentences, all_sentences,
                   duplicate_sentences, pattern_sentences, sentences_to_remove,
                   cleaned_pages, hf_result>>

\* no page separator: return self._remove_headers_footers_simple(text)
HfSimple ==
    /\ HfRunning("simple")
    /\ hf_result' = _remove_headers_footers_simple(hf_text)
    /\ pc' = "done"
    /\ UNCHANGED <<notHfVars, op, hf_text, pages, page_sentences, all_sentences,
                   duplicate_sentences, pattern_sentences, sentences_to_remove,
                   cleaned_pages>>

\* the loop over the pages: page_sentences and all_sentences
HfSentences ==
    /\ HfRunning("pages")
    /\ page_sentences' = PageSentences(pages)
    /\ all_sentences' = Flatten(page_sentences')
    /\ pc' = "sentences"
    /\ UNCHANGED <<notHfVars, op, hf_text, pages, duplicate_sentences,
                   pattern_sentences, sentences_to_remove, cleaned_pages, hf_result>>

\* sentence_counts and duplicate_sentences
HfDuplicates ==
    /\ HfRunning("sentences")
    /\ duplicate_sentences' = DuplicateSentences(all_sentences)
    /\ pc' = "duplicates"
    /\ UNCHANGED <<notHfVars, op, hf_text, pages, page_sentences, all_sentences,
                   pattern_sentences, sentences_to_remove, cleaned_pages, hf_result>>

\* pattern_sentences = self._find_sentence_patterns(all_sentences)
HfPatterns ==
    /\ HfRunning("duplicates")
    /\ pattern_sentences' = _find_sentence_patterns(all_sentences)
    /\ pc' = "patterns"
    /\ UNCHANGED <<notHfVars, op, hf_text, pages, page_sentences, all_sentences,
                   duplicate_sentences, sentences_to_remove, cleaned_pages, hf_result>>

\* the flagged sentences are taken out of every page, the pages left are
\* rejoined and returned
HfRemove ==
    /\ HfRunning("patterns")
    /\ sentences_to_remove' = duplicate_sentences \cup pattern_sentences
    /\ cleaned_pages' = CleanedPages(page_sentences, sentences_to_remove')
    /\ hf_result' = Join(cleaned_pages', JoinMarker)
    /\ pc' = "done"
    /\ UNCHANGED <<notHfVars, op, hf_text, pages, page_sentences, all_sentences,
                   duplicate_sentences, pattern_sentences>>

NextHf ==
    \/ HfSplitPages
    \/ HfSimple
    \/ HfSentences
    \/ HfDuplicates
    \/ HfPatterns
    \/ HfRemove

SpecHf == InitHf /\ [][NextHf]_vars

\* the call took the multi-page path and has returned
HfPagedDone == HfRunning("done") /\ Len(pages) > 1

\* the sentences of a returned text: its pages cut at the marker, each cut
\* into sentences
ResultSentences(result) ==
    LET ps == SplitOn(result, SplitMarker)
    IN  UNION {Range(_split_into_sentences(Strip(ps[k]))) : k \in 1..Len(ps)}

\* a page marker such as "Page 3.": one word without digit and one number
IsPageMarker(s) ==
    LET w == FindWords(s)
    IN  /\ Cardinality(w) = 2
        /\ \E x \in w : IsAllDigits(x)
        /\ \E y \in w : ~HasDigit(y)
        /\ CountChar(Structure(s), "N") = 1

\* fewer than two other sentences share two or more meaningful words with s
FewSharers(sents, s) ==
    Cardinality({j \in 1..Len(sents) :
        sents[j] # s /\ SharesMeaningfulWords(FindWords(s), FindWords(sents[j]))})
            < MinSharedSentences

\* the page markers of a page
MarkersOf(page) == {m \in Range(page) : IsPageMarker(m)}

\* Q holds in all cases of C4: three pages a < b < c, a sentence h on all
\* three, and on each a page marker, the three markers different but of
\* one structure
InAllHeaderAndMarkerCases(pss, Q(_, _, _, _)) ==
    \A a \in DOMAIN pss : \A b \in DOMAIN pss : \A c \in DOMAIN pss :
        (a < b /\ b < c) =>
            \A h \in Range(pss[a]) \cap Range(pss[b]) \cap Range(pss[c]) :
            \A ma \in MarkersOf(pss[a]) : \A mb \in MarkersOf(pss[b]) :
            \A mc \in MarkersOf(pss[c]) :
                (/\ ma # mb /\ mb # mc /\ ma # mc
                 /\ Structure(ma) = Structure(mb) /\ Structure(mb) = Structure(mc))
                    => Q(h, ma, mb, mc)

NoCase(h, ma, mb, mc) == FALSE

C5_UniqueDigitFreeSentenceSurvives ==
    HfPagedDone =>
        LET out == ResultSentences(hf_result)
        IN  \A s \in Range(all_sentences) :
               (CountOf(all_sentences, s) = 1 /\ ~HasDigit(s)) => s \in out

(***************************************************************************)
(* The three stages called one after the other on the same text:           *)
(* clean_text(t), then chunk_text(t, token_limit, overlap_size), then      *)
(* _remove_headers_footers_from_text(t).  What a stage returned stays in   *)
(* its variables while the next one runs.                                  *)
(***************************************************************************)
MaxStageLen == 5
\* the default of token_limit
DefaultTokenLimit == 500

\* a letter, a sentence-final mark, a blank, and the character of the page
\* marker
StageAlphabet == {"a", DOT, SPACE, "-"}

InitStages ==
    /\ op = "clean_text" /\ pc = "call"
    /\ ChunkIdle /\ WmIdle /\ HfIdle /\ ConvIdle
    /\ ct_input \in StringsUpTo(StageAlphabet, MaxStageLen)
    /\ ct_text = ct_input
    /\ ct_returned = <<>>

\* chunker.chunk_text(t, token_limit, overlap_size), the defaults included
StageCallChunk ==
    /\ op = "clean_text" /\ pc = "done"
    /\ op' = "chunk_text" /\ pc' = "call"
    /\ text' = ct_input
    /\ token_limit' \in (1..MaxTokenLimit) \cup {DefaultTokenLimit}
    /\ overlap_size' = DefaultOverlap
    /\ UNCHANGED <<notChunkVars, sentences, idx, current_chunk, current_tokens,
                   chunks, current_members, members>>

\* self._remove_headers_footers_from_text(t)
StageCallHf ==
    /\ op = "chunk_text" /\ pc = "done"
    /\ op' = "_remove_headers_footers_from_text" /\ pc' = "call"
    /\ hf_text' = text
    /\ UNCHANGED <<notHfVars, pages, page_sentences, all_sentences,
                   duplicate_sentences, pattern_sentences, sentences_to_remove,
                   cleaned_pages, hf_result>>

NextStages ==
    \/ NextClean
    \/ StageCallChunk
    \/ NextChunk
    \/ StageCallHf
    \/ NextHf

SpecStages == InitStages /\ [][NextStages]_vars

\* C10: the empty text makes no stage fail: clean_text("") returns "",
\* chunk_text("") takes the early return to the empty list, and
\* _remove_headers_footers_from_text("") takes the path without page
\* separator and returns "".
C10_EmptyInputEmptyResult ==
    /\ (ct_input = <<>> /\ ct_returned # <<>>) =>
          \A k \in 1..Len(ct_returned) : ct_returned[k] = <<>>
    /\ (op = "chunk_text" /\ text = <<>>) =>
          /\ pc \in {"call", "done"}
          /\ pc = "done" => chunks = <<>>
    /\ (op = "_remove_headers_footers_from_text" /\ hf_text = <<>>) =>
          /\ pc \in {"call", "simple", "done"}
          /\ pc = "done" => hf_result = <<>>

\* C10 witness: the three stages have been given the empty text, the
\* chunker with the limit 500 and the overlap 50, and each has returned
C10_Witness ==
    /\ HfRunning("done") /\ hf_text = <<>> /\ hf_result = <<>>
    /\ text = <<>> /\ token_limit = DefaultTokenLimit /\ overlap_size = DefaultOverlap
    /\ chunks = <<>>
    /\ ct_input = <<>> /\ ct_returned = << <<>>, <<>> >>

(***************************************************************************)
(* Claims about the multi-page path.                                       *)
(***************************************************************************)
\* the multi-page call has built its exact-duplicate set
DuplicatesBuilt ==
    /\ op = "_remove_headers_footers_from_text"
    /\ pc \in {"duplicates", "patterns", "done"}
    /\ Len(pages) > 1

\* the pages that hold the sentence s
PagesWith(pss, s) == {k \in DOMAIN pss : s \in Range(pss[k])}

\* C13: the exact-duplicate set holds the sentences that stand on 2 or more
\* different pages, and no others.
C13_DuplicatesStandOnTwoPages ==
    DuplicatesBuilt =>
        duplicate_sentences =
            {s \in Range(all_sentences) : Cardinality(PagesWith(page_sentences, s)) >= 2}

\* the multi-page call has searched the patterns
PatternsBuilt ==
    /\ op = "_remove_headers_footers_from_text"
    /\ pc \in {"patterns", "done"}
    /\ Len(pages) > 1

\* the number of maximal digit runs of s
DigitRuns(s) ==
    Cardinality({k \in 1..Len(s) : IsDigit(s[k]) /\ (k = 1 \/ ~IsDigit(s[k - 1]))})

\* how many other sentences of the list mask to the same text as sents[k]
SameMaskedOthers(sents, k) ==
    Cardinality({j \in 1..Len(sents) :
        j # k /\ Structure(sents[j]) = Structure(sents[k])})

\* C14: every sentence that the masked-structure heuristic flags has a
\* masked form of 5 or more characters, 2 or more digit runs, and 2 or more
\* other sentences with the same masked form.
C14_StructureFlagNeedsTwoDigitRuns ==
    (PatternsBuilt /\ Len(all_sentences) >= 2) =>
        \A k \in 1..Len(all_sentences) :
            all_sentences[k] \in StructurePatterns(all_sentences) =>
                /\ Len(Structure(all_sentences[k])) >= MinStructureLen
                /\ DigitRuns(all_sentences[k]) >= MinPlaceholders
                /\ SameMaskedOthers(all_sentences, k) >= MinSameStructure

\* the sentences of page k that are not flagged, in their order
Survivors(pss, flagged, k) == SelectSeq(pss[k], LAMBDA x : x \notin flagged)

\* the pages with a surviving sentence, in their order
SurvivingPages(pss, flagged) ==
    SelectSeq([k \in 1..Len(pss) |-> k], LAMBDA k : Survivors(pss, flagged, k) # <<>>)

\* the pages of a returned text
ResultPages(result) == IF result = <<>> THEN <<>> ELSE SplitOn(result, JoinMarker)

\* C16: the pages of the returned text are, in order, the input pages that
\* have a sentence outside the exact-duplicate set and the pattern set,
\* each as the single-space join of these sentences in their order; no page
\* of the returned text is empty, and every sentence of the returned text
\* is a sentence of the input.
C16_OutputIsPagesWithoutFlagged ==
    HfPagedDone =>
        LET flagged == duplicate_sentences \cup pattern_sentences
            out == ResultPages(hf_result)
            from == SurvivingPages(page_sentences, flagged)
        IN  /\ Len(out) = Len(from)
            /\ \A i \in 1..Len(out) :
                  /\ out[i] = Join(Survivors(page_sentences, flagged, from[i]), <<SPACE>>)
                  /\ Strip(out[i]) # <<>>
            /\ ResultSentences(hf_result) \subseteq Range(all_sentences)

\* C16 witness: of three pages with text the first lost all its sentences
\* and is gone, the second lost one sentence and kept another, and the
\* returned text has two pages
C16_Witness ==
    /\ HfPagedDone /\ Len(page_sentences) = 3
    /\ LET flagged == duplicate_sentences \cup pattern_sentences
       IN  /\ Survivors(page_sentences, flagged, 1) = <<>>
           /\ Survivors(page_sentences, flagged, 2) # <<>>
           /\ Len(Survivors(page_sentences, flagged, 2)) < Len(page_sentences[2])
           /\ Survivors(page_sentences, flagged, 3) # <<>>
    /\ Len(ResultPages(hf_result)) = 2

(***************************************************************************)
(* Claims about the path without page separator.                           *)
(***************************************************************************)
\* the text holds no page-break marker
NoMarker(t) == ~Contains(t, SplitMarker)

\* C11: a call whose text holds no page-break marker goes from the split
\* straight to the line-based fallback and returns; it builds no sentence
\* list and compares no sentences; and a text of at most 4 lines is
\* returned as it was given.
C11_NoMarkerTakesFallback ==
    (op = "_remove_headers_footers_from_text" /\ NoMarker(hf_text)) =>
        /\ pc \in {"call", "simple", "done"}
        /\ page_sentences = <<>> /\ all_sentences = <<>>
        /\ duplicate_sentences = {} /\ pattern_sentences = {}
        /\ sentences_to_remove = {} /\ cleaned_pages = <<>>
        /\ (pc = "done" /\ Len(SplitOn(hf_text, <<"\n">>)) <= MaxUntouchedLines) =>
              hf_result = hf_text

\* C11 witness: a text of 4 lines without marker, the first and the last of
\* them lines the fallback would drop from a longer text, has been returned
\* unchanged
C11_Witness ==
    /\ HfRunning("done") /\ NoMarker(hf_text)
    /\ LET ls == SplitOn(hf_text, <<"\n">>)
       IN  /\ Len(ls) = MaxUntouchedLines
           /\ IsHeaderFooterLine(Strip(ls[1]))
           /\ IsHeaderFooterLine(Strip(ls[Len(ls)]))
    /\ hf_result = hf_text

\* the lines of ls whose index is not in dropped, in order
RECURSIVE LinesWithout(_, _, _)
LinesWithout(ls, dropped, k) ==
    IF k > Len(ls) THEN <<>>
    ELSE IF k \in dropped THEN LinesWithout(ls, dropped, k + 1)
    ELSE <<ls[k]>> \o LinesWithout(ls, dropped, k + 1)

\* the first two and the last two lines of a text of n lines
EdgeIndices(n) == {k \in 1..n : k <= EdgeLines \/ k > n - EdgeLines}

\* C15: what the fallback returns for a text of more than 4 lines is the
\* text without some of its first two and last two lines, every line left
\* out being one that satisfies the drop predicate itself.
C15_OnlyMatchingEdgeLinesDropped ==
    (HfRunning("done") /\ NoMarker(hf_text)) =>
        LET ls == SplitOn(hf_text, <<"\n">>)
            droppable == {k \in EdgeIndices(Len(ls)) : IsHeaderFooterLine(Strip(ls[k]))}
        IN  Len(ls) > MaxUntouchedLines =>
               \E dropped \in SUBSET droppable :
                   hf_result = Join(LinesWithout(ls, dropped, 1), <<"\n">>)

(***************************************************************************)
(* PdfConverter.convert, _convert_with_options and                         *)
(* _convert_with_page_separators.                                          *)
(***************************************************************************)
MaxPdfPages == 3

\* result_parts.append("\n\n---\n\n")
PageBreak == <<"\n", "\n", "-", "-", "-", "\n", "\n">>

\* PdfConverter.clean_text as a function of its argument
clean_text(t) ==
    IF t = <<>> THEN <<>> ELSE Strip(CollapseWhitespace(ReplaceLineBreaks(t)))

\* PdfConverter._remove_headers_footers_from_text as a function of its
\* argument
_remove_headers_footers_from_text(t) ==
    LET ps == SplitOn(t, SplitMarker)
    IN  IF Len(ps) <= 1 THEN _remove_headers_footers_simple(t)
        ELSE LET pss == PageSentences(ps)
                 all == Flatten(pss)
                 removed == DuplicateSentences(all) \cup _find_sentence_patterns(all)
             IN  Join(CleanedPages(pss, removed), JoinMarker)

\* pdfminer.high_level.extract_text: the text of every page, each followed
\* by a form feed
extract_text(ps) == Flatten([k \in 1..Len(ps) |-> ps[k] \o <<"\f">>])

\* what the extractor gives for a page: nothing, whitespace only, a
\* sentence, a sentence in whitespace, two sentences
PdfPageTexts ==
    {<<>>, <<SPACE, "\n">>, <<"a", DOT>>, <<SPACE, "b", DOT, "\n">>,
     <<"a", DOT, SPACE, "c", DOT>>}

ConvertOps == {"convert", "_convert_with_page_separators"}

InitConvert ==
    /\ op \in ConvertOps /\ pc = "call"
    /\ ChunkIdle /\ CleanIdle /\ WmIdle /\ HfIdle
    /\ dependency_missing \in BOOLEAN /\ pymupdf_missing \in BOOLEAN
    /\ add_page_separators \in BOOLEAN /\ remove_headers_footers \in BOOLEAN
    /\ op = "_convert_with_page_separators" =>
          /\ dependency_missing = FALSE
          /\ add_page_separators = TRUE /\ remove_headers_footers = FALSE
    /\ pdf_pages \in UNION {[1..n -> PdfPageTexts] : n \in 0..MaxPdfPages}
    /\ page_no = 0 /\ result_parts = <<>> /\ first_page = TRUE
    /\ full_text = <<>> /\ markdown = <<>>

\* a mutant of PyMuPDFCheckFails: the import of PyMuPDF is not looked at
PyMuPDFCheckFails_Never(remove, missing) == FALSE

\* if remove_headers_footers and _pymupdf_dependency_exc_info is not None
PyMuPDFCheckFails(remove, missing) == remove /\ missing

\* if not first_page and page_text
NeedsPageBreak(first, page_text) == ~first /\ page_text # <<>>

\* one iteration of the page loop on result_parts
PartsAfterPage(parts, first, raw) ==
    LET page_text == Strip(raw)
        withBreak == IF NeedsPageBreak(first, page_text)
                        THEN Append(parts, PageBreak) ELSE parts
    IN  IF page_text # <<>> THEN Append(withBreak, page_text) ELSE withBreak

\* after the loop: the joined text cleaned, and the headers and footers
\* removed when asked for and when there is text
FinalMarkdown(full, add, remove) ==
    LET full_text_raw == clean_text(full)
    IN  IF remove /\ full_text_raw # <<>>
           THEN _remove_headers_footers_from_text(full_text_raw)
           ELSE full_text_raw

ConvertUnchangedInputs ==
    UNCHANGED <<notConvVars, op, dependency_missing, pymupdf_missing,
                add_page_separators, remove_headers_footers, pdf_pages>>

\* convert: if _dependency_exc_info is not None: raise MissingDependencyException
ConvertMissingDependency ==
    /\ op = "convert" /\ pc = "call"
    /\ dependency_missing
    /\ pc' = "MissingDependencyException"
    /\ ConvertUnchangedInputs
    /\ UNCHANGED <<page_no, result_parts, first_page, full_text, markdown>>

\* convert without options: markdown = pdfminer.high_level.extract_text(file_stream)
ConvertExtractText ==
    /\ op = "convert" /\ pc = "call"
    /\ ~dependency_missing
    /\ ~(add_page_separators \/ remove_headers_footers)
    /\ markdown' = extract_text(pdf_pages)
    /\ page_no' = Len(pdf_pages)
    /\ pc' = "returned"
    /\ ConvertUnchangedInputs
    /\ UNCHANGED <<result_parts, first_page, full_text>>

\* convert with an option: return self._convert_with_options(...)
ConvertCallWithOptions ==
    /\ op = "convert" /\ pc = "call"
    /\ ~dependency_missing
    /\ add_page_separators \/ remove_headers_footers
    /\ pc' = "_convert_with_options"
    /\ ConvertUnchangedInputs
    /\ UNCHANGED <<page_no, result_parts, first_page, full_text, markdown>>

\* _convert_with_options: PyMuPDF is asked for and missing
OptionsMissingDependency ==
    /\ op = "convert" /\ pc = "_convert_with_options"
    /\ PyMuPDFCheckFails(remove_headers_footers, pymupdf_missing)
    /\ pc' = "MissingDependencyException"
    /\ ConvertUnchangedInputs
    /\ UNCHANGED <<page_no, result_parts, first_page, full_text, markdown>>

\* _convert_with_options: parser and device are made, result_parts = [],
\* first_page = True
OptionsStart ==
    /\ op = "convert" /\ pc = "_convert_with_options"
    /\ ~PyMuPDFCheckFails(remove_headers_footers, pymupdf_missing)
    /\ result_parts' = <<>> /\ first_page' = TRUE /\ page_no' = 0
    /\ pc' = "pages"
    /\ ConvertUnchangedInputs
    /\ UNCHANGED <<full_text, markdown>>

\* _convert_with_page_separators up to the loop
SeparatorsStart ==
    /\ op = "_convert_with_page_separators" /\ pc = "call"
    /\ result_parts' = <<>> /\ first_page' = TRUE /\ page_no' = 0
    /\ pc' = "pages"
    /\ ConvertUnchangedInputs
    /\ UNCHANGED <<full_text, markdown>>

\* one iteration of the page loop of either method
ConvertPage ==
    /\ op \in ConvertOps /\ pc = "pages"
    /\ page_no < Len(pdf_pages)
    /\ page_no' = page_no + 1
    /\ result_parts' = PartsAfterPage(result_parts, first_page, pdf_pages[page_no'])
    /\ first_page' = FALSE
    /\ ConvertUnchangedInputs
    /\ UNCHANGED <<pc, full_text, markdown>>

\* _convert_with_options after the loop
OptionsFinish ==
    /\ op = "convert" /\ pc = "pages"
    /\ page_no = Len(pdf_pages)
    /\ full_text' = Flatten(result_parts)
    /\ markdown' = FinalMarkdown(full_text', add_page_separators, remove_headers_footers)
    /\ pc' = "returned"
    /\ ConvertUnchangedInputs
    /\ UNCHANGED <<page_no, result_parts, first_page>>

\* _convert_with_page_separators after the loop
SeparatorsFinish ==
    /\ op = "_convert_with_page_separators" /\ pc = "pages"
    /\ page_no = Len(pdf_pages)
    /\ full_text' = Flatten(result_parts)
    /\ markdown' = full_text'
    /\ pc' = "returned"
    /\ ConvertUnchangedInputs
    /\ UNCHANGED <<page_no, result_parts, first_page>>

NextConvert ==
    \/ ConvertMissingDependency
    \/ ConvertExtractText
    \/ ConvertCallWithOptions
    \/ OptionsMissingDependency
    \/ OptionsStart
    \/ SeparatorsStart
    \/ ConvertPage
    \/ OptionsFinish
    \/ SeparatorsFinish

SpecConvert == InitConvert /\ [][NextConvert]_vars

(***************************************************************************)
(* Claims about the conversion.                                            *)
(***************************************************************************)
\* nothing was parsed and nothing was produced
NothingProduced ==
    page_no = 0 /\ result_parts = <<>> /\ full_text = <<>> /\ markdown = <<>>

\* C12: when the import of pdfminer failed, convert leaves its first step
\* only by raising MissingDependencyException; when pdfminer is there, the
\* header/footer removal is asked for and the import of PyMuPDF failed,
\* _convert_with_options leaves its first step only by raising it; in both
\* cases no page has been parsed and no text produced.
C12_MissingDependencyFailsFast ==
    op = "convert" =>
        /\ (dependency_missing /\ pc # "call") =>
              (pc = "MissingDependencyException" /\ NothingProduced)
        /\ (/\ ~dependency_missing
            /\ remove_headers_footers /\ pymupdf_missing
            /\ pc \notin {"call", "_convert_with_options"}) =>
              (pc = "MissingDependencyException" /\ NothingProduced)

\* C12 witness: a file of MaxPdfPages pages, the first with text, was given
\* with remove_headers_footers, pdfminer is there, PyMuPDF is not, and the
\* call has raised
C12_Witness ==
    /\ op = "convert" /\ pc = "MissingDependencyException"
    /\ ~dependency_missing /\ pymupdf_missing /\ remove_headers_footers
    /\ Len(pdf_pages) = MaxPdfPages /\ Strip(pdf_pages[1]) # <<>>
    /\ NothingProduced

\* the call went through the page loop and has returned
JoinedAndReturned ==
    /\ op \in ConvertOps /\ pc = "returned"
    /\ op = "convert" => (add_page_separators \/ remove_headers_footers)

\* the positions of s at which sub starts
Occurrences(s, sub) ==
    {k \in 1..(Len(s) - Len(sub) + 1) : SubSeq(s, k, k + Len(sub) - 1) = sub}

\* C18: the text joined by the page loop does not start with a marker, does
\* not end with one, holds no two markers in a row, and holds one marker
\* less than there are pages with text.
C18_MarkersOnlyBetweenPages ==
    JoinedAndReturned =>
        LET at == Occurrences(full_text, PageBreak)
            withText == {k \in 1..Len(pdf_pages) : Strip(pdf_pages[k]) # <<>>}
        IN  /\ 1 \notin at
            /\ (Len(full_text) - Len(PageBreak) + 1) \notin at
            /\ \A k \in at : (k + Len(PageBreak)) \notin at
            /\ withText # {} => Cardinality(at) = Cardinality(withText) - 1

\* C19: what convert returns for remove_headers_footers=True and
\* add_page_separators=False holds no page-break marker.
C19_NoMarkerWithoutOption ==
    (op = "convert" /\ pc = "returned"
        /\ remove_headers_footers /\ ~add_page_separators) =>
            ~Contains(markdown, SplitMarker)

=============================================================================
